---- MODULE Spec2Model ----
(***************************************************************************)
(* Model of .github/scripts/tech-news-digest.mjs: the feed ingestion loop, *)
(* the time-window filter, the dedup pass, the summarization call, the     *)
(* Slack post and the try/finally that closes the undici agent.            *)
(*                                                                         *)
(* Strings are sequences of one-character strings, so that trim() is a     *)
(* real operation.  Instants are integers (milliseconds).  A missing       *)
(* property (undefined) is the value Absent.                               *)
(***************************************************************************)
EXTENDS Integers, Sequences, FiniteSets, TLC

\* ---------------------------------------------------------------- bounds
MaxFeeds == 2        \* lines in FEEDS
MaxCap == 2          \* MAX_ITEMS_PER_FEED ranges over 0..MaxCap

\* ------------------------------------------------------------- constants
MsPerHour == 3600000 \* 60 * 60 * 1000

\* A property that is undefined, and one that holds the string s.
Absent == [kind |-> "undefined"]
Str(s) == [kind |-> "string", s |-> s]

\* ----------------------------------------------------------------- strings
IsSpace(c) == c \in {" ", "\n", "\t"}

RECURSIVE TrimStart(_)
TrimStart(s) ==
  IF s = <<>> THEN <<>>
  ELSE IF IsSpace(Head(s)) THEN TrimStart(Tail(s)) ELSE s

RECURSIVE TrimEnd(_)
TrimEnd(s) ==
  IF s = <<>> THEN <<>>
  ELSE IF IsSpace(s[Len(s)]) THEN TrimEnd(SubSeq(s, 1, Len(s) - 1)) ELSE s

\* String.prototype.trim
Trim(s) == TrimEnd(TrimStart(s))

\* (x || "") for a property that is a string or undefined
OrEmpty(x) == IF x.kind = "string" THEN x.s ELSE <<>>

\* ------------------------------------------------------------------- dates
\* A raw date field is undefined, or a string: the empty string, a string
\* that Date cannot parse, or a string that parses to the instant ms.
EmptyDate == [kind |-> "empty"]
BadDate == [kind |-> "garbage"]
DateStr(ms) == [kind |-> "datestring", ms |-> ms]

\* A Date object (valid or Invalid Date), or null.
NullDate == [kind |-> "null"]
InvalidDate == [kind |-> "invalid"]
DateAt(ms) == [kind |-> "date", ms |-> ms]

\* new Date(x) for a non-empty string x
NewDate(x) == IF x.kind = "datestring" THEN DateAt(x.ms) ELSE InvalidDate

\* const d = x ? new Date(x) : null;
\* return d && !Number.isNaN(d.getTime()) ? d : null;
toDateSafe(x) ==
  LET d == IF x.kind \in {"undefined", "empty"} THEN NullDate ELSE NewDate(x)
  IN IF d.kind = "date" THEN d ELSE NullDate

\* a || b  for values that are a Date or null
OrElse(a, b) == IF a.kind # "null" THEN a ELSE b

published_PubDateFirst(entry) ==
  OrElse(toDateSafe(entry.pubDate),
    OrElse(toDateSafe(entry.isoDate),
      OrElse(toDateSafe(entry.published), toDateSafe(entry.updated))))

\* const published = toDateSafe(isoDate) || ... || toDateSafe(updated)
publishedOf(entry) ==
  OrElse(toDateSafe(entry.isoDate),
    OrElse(toDateSafe(entry.pubDate),
      OrElse(toDateSafe(entry.published), toDateSafe(entry.updated))))

\* const cutoff = new Date(Date.now() - lookbackHours * 60 * 60 * 1000)
cutoffOf(nowMs, hours) == nowMs - hours * MsPerHour

\* published.toISOString() of a valid date: the text that denotes the instant
toISOString(d) == [kind |-> "iso", ms |-> d.ms]

isTooOld_Never(published, cutoffMs) == FALSE

\* published && published < cutoff
isTooOld(published, cutoffMs) ==
  published.kind = "date" /\ published.ms < cutoffMs

Skip == [kind |-> "continue"]
Push(c) == [kind |-> "push", item |-> c]

\* The body of the per-entry loop: Skip for either continue, otherwise the
\* object pushed onto items.  origin = <<feed index, entry index>> is a
\* history field the program does not have.
entryStep(entry, source, cutoffMs, origin) ==
  LET title == Trim(OrEmpty(entry.title))
      link == Trim(OrEmpty(entry.link))
      published == publishedOf(entry)
  IN IF title = <<>> \/ link = <<>> THEN Skip
     ELSE IF isTooOld(published, cutoffMs) THEN Skip
     ELSE Push([source |-> source, title |-> title, url |-> link,
                publishedAt |-> IF published.kind = "date"
                                THEN toISOString(published) ELSE NullDate,
                origin |-> origin])

\* ------------------------------------------------------------ one feed
Min(a, b) == IF a < b THEN a ELSE b

\* arr.slice(0, n) for an integer n >= 0
Slice(arr, n) == SubSeq(arr, 1, Min(n, Len(arr)))

\* feed.title || url
sourceOf(feed, url) ==
  IF feed.title.kind = "string" /\ feed.title.s # <<>> THEN feed.title.s ELSE url

\* (feed.items || [])
itemsOf(feed) == IF feed.items.kind = "array" THEN feed.items.a ELSE <<>>

\* for (const entry of entries) { ... items.push(...) } from entry k on
RECURSIVE entryLoop(_, _, _, _, _, _)
entryLoop(entries, k, source, cutoffMs, f, acc) ==
  IF k > Len(entries) THEN acc
  ELSE LET r == entryStep(entries[k], source, cutoffMs, <<f, k>>)
       IN entryLoop(entries, k + 1, source, cutoffMs, f,
                    IF r.kind = "push" THEN Append(acc, r.item) ELSE acc)

entryLoop_FilterThenCap(entries, source, cutoffMs, cap, f, acc) ==
  acc \o Slice(entryLoop(entries, 1, source, cutoffMs, f, <<>>), cap)

\* The per-feed entry loop over the first cap entries, appending to acc.
feedEntries(entries, source, cutoffMs, cap, f, acc) ==
  entryLoop(Slice(entries, cap), 1, source, cutoffMs, f, acc)

Throw == [kind |-> "throw"]
Feed(title, its) == [kind |-> "feed", title |-> title, items |-> its]
Arr(a) == [kind |-> "array", a |-> a]

feedStep_FailureClears(st, url, result, cutoffMs, cap, f) ==
  IF result.kind = "throw"
  THEN [items |-> <<>>, warnings |-> Append(st.warnings, url)]
  ELSE [items |-> feedEntries(itemsOf(result), sourceOf(result, url), cutoffMs,
                              cap, f, st.items),
        warnings |-> st.warnings]

feedStep_Prepends(st, url, result, cutoffMs, cap, f) ==
  IF result.kind = "throw"
  THEN [items |-> st.items, warnings |-> Append(st.warnings, url)]
  ELSE [items |-> feedEntries(itemsOf(result), sourceOf(result, url), cutoffMs,
                              cap, f, <<>>) \o st.items,
        warnings |-> st.warnings]

\* One iteration of  for (const url of feeds):  the catch branch warns and
\* continues, the other runs the entry loop.  st = [items, warnings].
feedStep(st, url, result, cutoffMs, cap, f) ==
  IF result.kind = "throw"
  THEN [items |-> st.items, warnings |-> Append(st.warnings, url)]
  ELSE [items |-> feedEntries(itemsOf(result), sourceOf(result, url), cutoffMs,
                              cap, f, st.items),
        warnings |-> st.warnings]

\* ------------------------------------------------------------------ dedup
\* for (const it of items) { if (seen.has(it.url)) continue; ... } from i on
RECURSIVE dedupLoop(_, _, _, _)
dedupLoop(its, i, uniqAcc, seen) ==
  IF i > Len(its) THEN uniqAcc
  ELSE IF its[i].url \in seen THEN dedupLoop(its, i + 1, uniqAcc, seen)
  ELSE dedupLoop(its, i + 1, Append(uniqAcc, its[i]), seen \cup {its[i].url})

RECURSIVE dedupKeepLast(_, _, _)
dedupKeepLast(its, i, uniqAcc) ==
  IF i > Len(its) THEN uniqAcc
  ELSE IF \E j \in (i + 1)..Len(its) : its[j].url = its[i].url
       THEN dedupKeepLast(its, i + 1, uniqAcc)
       ELSE dedupKeepLast(its, i + 1, Append(uniqAcc, its[i]))

dedup_KeepLast(its) == dedupKeepLast(its, 1, <<>>)

dedup(its) == dedupLoop(its, 1, <<>>, {})

\* ------------------------------------------------------- FEEDS parsing
\* FEEDS.split("\n").map((s) => s.trim()).filter(Boolean), on the lines
feedsOf(lines) ==
  SelectSeq([i \in 1..Len(lines) |-> Trim(lines[i])], LAMBDA l : l # <<>>)

\* ------------------------------------------------------------ callOpenAI
\* for (const c of out.content ?? []) if (c.type === ...) text += c.text ?? ""
RECURSIVE contentLoop(_, _, _)
contentLoop(content, j, text) ==
  IF j > Len(content) THEN text
  ELSE LET c == content[j]
       IN contentLoop(content, j + 1,
            IF c.type \in {"output_text", "text"}
            THEN text \o OrEmpty(c.text) ELSE text)

\* for (const out of data.output ?? []) { ... }
RECURSIVE outputLoop(_, _, _)
outputLoop(output, i, text) ==
  IF i > Len(output) THEN text
  ELSE LET content == IF output[i].content.kind = "array"
                      THEN output[i].content.a ELSE <<>>
       IN outputLoop(output, i + 1, contentLoop(content, 1, text))

\* let text = ""; ...; return text.trim();
textOf(data) ==
  Trim(outputLoop(IF data.output.kind = "array" THEN data.output.a ELSE <<>>,
                  1, <<>>))

\* What the service does with the one request: fetch rejects, or it answers
\* with a status (ok = 2xx) and a body that is JSON or not.
Reject == [kind |-> "reject"]
Response(ok, body) == [kind |-> "response", ok |-> ok, body |-> body]
NotJson == [kind |-> "notjson"]
Json(data) == [kind |-> "json", data |-> data]

\* await fetch(...) and await res.json() throw; nothing else in callOpenAI does
callOpenAIThrows(resp) ==
  resp.kind = "reject" \/ resp.body.kind = "notjson"

\* uniq.length ? await callOpenAI() : fallback
useService_MoreThanOne(u) == Len(u) > 1

useService(u) == Len(u) # 0

\* The fallback summary of line 180, in English.
Fallback == <<"(no news candidates could be fetched)">>

\* The label that line 183 puts before the summary, without its emoji.
Prefix == <<"*Tech News*", "\n", "\n">>

slackMessage_NoPrefix(summaryText) == summaryText

\* `<label> *Tech News*\n\n${summary}`
slackMessage(summaryText) == Prefix \o summaryText

\* ----------------------------------------------------------------- inputs
RECURSIVE SeqsUpTo(_, _)
SeqsUpTo(S, n) ==
  IF n = 0 THEN {<<>>}
  ELSE LET shorter == SeqsUpTo(S, n - 1)
       IN shorter \cup {Append(q, x) : q \in {r \in shorter : Len(r) = n - 1}, x \in S}

\* FEEDS, as its lines: an empty line, a url, a url with a leading blank
FeedLines == {<<>>, <<"f">>, <<" ", "g">>}
FeedsChoices == SeqsUpTo(FeedLines, MaxFeeds) \ {<<>>}

LookbackChoices == {1, 2}
NowChoices == {3 * MsPerHour}

RawEntry(title, link, isoDate, pubDate) ==
  [title |-> title, link |-> link, isoDate |-> isoDate, pubDate |-> pubDate,
   published |-> Absent, updated |-> Absent]

\* u, dated exactly two hours after the epoch: the cutoff when the lookback is 1
EntryA == RawEntry(Str(<<"A">>), Str(<<" ", "u">>), DateStr(2 * MsPerHour), Absent)
\* u again, with no date that parses
EntryB == RawEntry(Str(<<"B", " ">>), Str(<<"u">>), BadDate, Absent)
\* v, one millisecond older than EntryA
EntryC == RawEntry(Str(<<"C">>), Str(<<"v">>), Absent, DateStr(2 * MsPerHour - 1))
\* w, with no date field at all
EntryD == RawEntry(Str(<<"D">>), Str(<<"w">>), Absent, Absent)
\* no title
EntryE == RawEntry(Str(<<" ">>), Str(<<"x">>), Absent, Absent)

EntryLists ==
  { <<>>, <<EntryA>>, <<EntryC>>, <<EntryA, EntryB>>, <<EntryB, EntryA>>,
    <<EntryC, EntryA>>, <<EntryE, EntryD>>, <<EntryD, EntryC>>,
    <<EntryC, EntryB, EntryA>> }

\* What parser.parseURL(url) does: throws, or resolves to a feed
FeedResults ==
  {Throw, Feed(Absent, Absent)}
    \cup {Feed(IF Len(es) = 1 THEN Absent ELSE Str(<<"F">>), Arr(es)) : es \in EntryLists}

Fragment(type, text) == [type |-> type, text |-> text]
Out(content) == [content |-> content]

Responses ==
  { Reject,
    Response(FALSE, NotJson),
    Response(FALSE, Json([output |-> Absent])),
    Response(TRUE, Json([output |-> Arr(<<
       Out(Absent),
       Out(Arr(<<Fragment("output_text", Str(<<" ", "D">>)),
                 Fragment("refusal", Str(<<"R">>)),
                 Fragment("text", Absent),
                 Fragment("text", Str(<<"E", " ">>))>>))>>)])) }

SlackOutcomes == {"resolve", "reject"}

\* ------------------------------------------------------------------ state
VARIABLES
  pc,            \* where the script is
  error,         \* the error that is propagating, or "none"
  agent,         \* undiciAgent: "none", "open", "closed"
  feeds,         \* const feeds
  lookbackHours, \* const lookbackHours
  maxItems,      \* const maxItems
  cutoff,        \* const cutoff (ms)
  fi,            \* position of  for (const url of feeds)
  fetched,       \* history: what parseURL did for each feed so far
  warnings,      \* the urls console.warn was called with
  items,         \* const items
  uniq,          \* const uniq
  response,      \* history: what the summarization service did
  openaiCalls,   \* number of requests sent to the summarization service
  summary,       \* const summary
  slackCalls,    \* the messages postToSlack sent
  okLogged       \* console.log("OK") ran

vars == <<pc, error, agent, feeds, lookbackHours, maxItems, cutoff, fi, fetched,
          warnings, items, uniq, response, openaiCalls, summary, slackCalls,
          okLogged>>

NoResponse == [kind |-> "none"]

Init ==
  /\ pc = "boot"
  /\ error = "none"
  /\ agent = "none"
  /\ feeds = <<>>
  /\ lookbackHours = 0
  /\ maxItems = 0
  /\ cutoff = 0
  /\ fi = 1
  /\ fetched = <<>>
  /\ warnings = <<>>
  /\ items = <<>>
  /\ uniq = <<>>
  /\ response = NoResponse
  /\ openaiCalls = 0
  /\ summary = Absent
  /\ slackCalls = <<>>
  /\ okLogged = FALSE

\* Lines 16-50: read the environment, check it, create the agent, split
\* FEEDS, compute the cutoff.  A throw here is outside the try/finally.
Start ==
  /\ pc = "boot"
  /\ \E key \in BOOLEAN, hook \in BOOLEAN, lines \in FeedsChoices,
        hours \in LookbackChoices, cap \in 0..MaxCap, now \in NowChoices :
       IF ~key
       THEN /\ pc' = "crashed"
            /\ error' = "Missing OPENAI_API_KEY"
            /\ UNCHANGED <<agent, feeds, lookbackHours, maxItems, cutoff>>
       ELSE IF ~hook
       THEN /\ pc' = "crashed"
            /\ error' = "Missing SLACK_WEBHOOK_URL"
            /\ UNCHANGED <<agent, feeds, lookbackHours, maxItems, cutoff>>
       ELSE /\ agent' = "open"
            /\ feeds' = feedsOf(lines)
            /\ IF feedsOf(lines) = <<>>
               THEN /\ pc' = "crashed"
                    /\ error' = "FEEDS is empty"
                    /\ UNCHANGED <<lookbackHours, maxItems, cutoff>>
               ELSE /\ pc' = "ingest"
                    /\ error' = "none"
                    /\ lookbackHours' = hours
                    /\ maxItems' = cap
                    /\ cutoff' = cutoffOf(now, hours)
  /\ UNCHANGED <<fi, fetched, warnings, items, uniq, response, openaiCalls,
                 summary, slackCalls, okLogged>>

\* Lines 53-83: one iteration of the loop over feeds, parseURL answering
\* with one of Results.
FetchFrom(Results) ==
  /\ pc = "ingest"
  /\ fi <= Len(feeds)
  /\ \E result \in Results :
       LET st == feedStep([items |-> items, warnings |-> warnings], feeds[fi],
                          result, cutoff, maxItems, fi)
       IN /\ items' = st.items
          /\ warnings' = st.warnings
          /\ fetched' = Append(fetched, result)
  /\ fi' = fi + 1
  /\ pc' = IF fi = Len(feeds) THEN "dedup" ELSE "ingest"
  /\ UNCHANGED <<error, agent, feeds, lookbackHours, maxItems, cutoff, uniq,
                 response, openaiCalls, summary, slackCalls, okLogged>>

FetchFeed == FetchFrom(FeedResults)

\* Lines 86-92.
Dedup ==
  /\ pc = "dedup"
  /\ uniq' = dedup(items)
  /\ pc' = "summarize"
  /\ UNCHANGED <<error, agent, feeds, lookbackHours, maxItems, cutoff, fi,
                 fetched, warnings, items, response, openaiCalls, summary,
                 slackCalls, okLogged>>

\* Lines 178-180 with callOpenAI, lines 146-167.
Summarize ==
  /\ pc = "summarize"
  /\ IF useService(uniq)
     THEN \E resp \in Responses :
            /\ openaiCalls' = openaiCalls + 1
            /\ response' = resp
            /\ IF callOpenAIThrows(resp)
               THEN /\ error' = "callOpenAI threw"
                    /\ pc' = "finally"
                    /\ UNCHANGED summary
               ELSE /\ summary' = Str(textOf(resp.body.data))
                    /\ pc' = "post"
                    /\ UNCHANGED error
     ELSE /\ summary' = Str(Fallback)
          /\ pc' = "post"
          /\ UNCHANGED <<error, response, openaiCalls>>
  /\ UNCHANGED <<agent, feeds, lookbackHours, maxItems, cutoff, fi, fetched,
                 warnings, items, uniq, slackCalls, okLogged>>

\* Lines 183-184 with postToSlack, lines 169-175.
PostToSlack ==
  /\ pc = "post"
  /\ slackCalls' = Append(slackCalls, slackMessage(summary.s))
  /\ \E outcome \in SlackOutcomes :
       IF outcome = "resolve"
       THEN okLogged' = TRUE /\ UNCHANGED error
       ELSE error' = "postToSlack threw" /\ UNCHANGED okLogged
  /\ pc' = "finally"
  /\ UNCHANGED <<agent, feeds, lookbackHours, maxItems, cutoff, fi, fetched,
                 warnings, items, uniq, response, openaiCalls, summary>>

\* Lines 185-189: the finally block.
Finally ==
  /\ pc = "finally"
  /\ agent' = "closed"
  /\ pc' = "exit"
  /\ UNCHANGED <<error, feeds, lookbackHours, maxItems, cutoff, fi, fetched,
                 warnings, items, uniq, response, openaiCalls, summary,
                 slackCalls, okLogged>>

Next == Start \/ FetchFeed \/ Dedup \/ Summarize \/ PostToSlack \/ Finally

Spec == Init /\ [][Next]_vars

\* ------------------------------------------- the filter on all small entries
ProbeStrings == {Absent, Str(<<>>), Str(<<" ">>), Str(<<" ", "T", " ">>)}
ProbeDates ==
  {Absent, EmptyDate, BadDate, DateStr(2 * MsPerHour - 1), DateStr(2 * MsPerHour)}

ProbeEntries ==
  [title : ProbeStrings, link : ProbeStrings, isoDate : ProbeDates,
   pubDate : ProbeDates, published : ProbeDates, updated : ProbeDates]

ProbeResults == {Feed(Absent, Arr(<<e>>)) : e \in ProbeEntries}

\* The state Start leaves when FEEDS names one feed.
FilterInit ==
  /\ pc = "ingest"
  /\ error = "none"
  /\ agent = "open"
  /\ feeds = feedsOf(<<<<"f">>>>)
  /\ lookbackHours \in LookbackChoices
  /\ maxItems \in 1..MaxCap
  /\ \E now \in NowChoices : cutoff = cutoffOf(now, lookbackHours)
  /\ fi = 1
  /\ fetched = <<>>
  /\ warnings = <<>>
  /\ items = <<>>
  /\ uniq = <<>>
  /\ response = NoResponse
  /\ openaiCalls = 0
  /\ summary = Absent
  /\ slackCalls = <<>>
  /\ okLogged = FALSE

ProbeFetch == FetchFrom(ProbeResults)

FilterNext == ProbeFetch

FilterSpec == FilterInit /\ [][FilterNext]_vars

\* ---------------------------------------------------------------- claims
\* What the program's candidate object holds, without the history field.
Strip(c) ==
  [source |-> c.source, title |-> c.title, url |-> c.url, publishedAt |-> c.publishedAt]

StripAll(cs) == [i \in 1..Len(cs) |-> Strip(cs[i])]

\* The feeds read so far, each with what parseURL did for it.
Reads == [i \in 1..Len(fetched) |-> [url |-> feeds[i], result |-> fetched[i]]]

\* The loop over feeds run on a list of reads, from read k on.
RECURSIVE RunOn(_, _, _)
RunOn(reads, k, st) ==
  IF k > Len(reads) THEN st
  ELSE RunOn(reads, k + 1,
             feedStep(st, reads[k].url, reads[k].result, cutoff, maxItems, k))

Threw(i) == fetched[i].kind = "throw"

AfterIngest == pc \in {"dedup", "summarize", "post", "finally", "exit"}
AfterDedup == pc \in {"summarize", "post", "finally", "exit"}
AfterSummarize == pc \in {"post", "finally", "exit"}

\* C1: a feed whose fetch or parse fails contributes no candidate and gets a
\* warning naming it; the loop goes on to every remaining feed in order; and
\* the candidates are exactly those of a run whose feed list leaves the
\* failing feeds out.
FaultIsolation ==
  LET failing == SelectSeq(Reads, LAMBDA r : r.result.kind = "throw")
      others == SelectSeq(Reads, LAMBDA r : r.result.kind # "throw")
  IN /\ Len(fetched) = fi - 1
     /\ pc = "ingest" => fi <= Len(feeds)
     /\ AfterIngest => Len(fetched) = Len(feeds)
     /\ \A i \in 1..Len(fetched) :
          Threw(i) => \A n \in 1..Len(items) : items[n].origin[1] # i
     /\ warnings = [n \in 1..Len(failing) |-> failing[n].url]
     /\ StripAll(items) =
          StripAll(RunOn(others, 1, [items |-> <<>>, warnings |-> <<>>]).items)

\* C1 witness: ingestion is over, a feed threw, was warned about, and a feed
\* read after it gave a candidate.
FaultIsolationWitness ==
  /\ pc = "dedup"
  /\ \E i, j \in 1..Len(fetched) :
       /\ i < j
       /\ Threw(i)
       /\ \E n \in 1..Len(items) : items[n].origin[1] = j
  /\ warnings # <<>>

\* C3: after the dedup pass no two candidates of uniq share a url, every url
\* of items is in uniq exactly once, and the candidate kept for a url is the
\* one at the earliest position of items, so from the earliest feed.
DedupKeepsFirst ==
  AfterDedup =>
    /\ \A a, b \in 1..Len(uniq) : a # b => uniq[a].url # uniq[b].url
    /\ \A i \in 1..Len(items) :
         Cardinality({k \in 1..Len(uniq) : uniq[k].url = items[i].url}) = 1
    /\ \A k \in 1..Len(uniq) :
         /\ \E i \in 1..Len(items) :
              /\ items[i] = uniq[k]
              /\ \A j \in 1..(i - 1) : items[j].url # uniq[k].url
         /\ \A i \in 1..Len(items) :
              items[i].url = uniq[k].url => uniq[k].origin[1] <= items[i].origin[1]

\* C3 witness: two feeds gave a candidate with the same url and the dedup
\* pass has dropped one.
DedupKeepsFirstWitness ==
  /\ pc = "summarize"
  /\ Len(uniq) < Len(items)
  /\ \E i, j \in 1..Len(items) :
       /\ items[i].url = items[j].url
       /\ items[i].origin[1] < items[j].origin[1]
       /\ items[i].title # items[j].title

\* The entries feed f returned: none when it threw.
EntriesRead(f) == IF Threw(f) THEN <<>> ELSE itemsOf(fetched[f])

\* The raw entry a candidate was built from.
EntryOf(c) == EntriesRead(c.origin[1])[c.origin[2]]

InWindow(c) == c.publishedAt.kind = "null" \/ c.publishedAt.ms >= cutoff

\* C4: at every point of the run every candidate of items and of uniq has
\* publishedAt absent or not earlier than cutoff, and cutoff, once computed,
\* never changes: it is the same for all feeds.
TimeWindow ==
  /\ [](/\ \A n \in 1..Len(items) : InWindow(items[n])
        /\ \A k \in 1..Len(uniq) : InWindow(uniq[k]))
  /\ [][pc # "boot" => cutoff' = cutoff]_vars

\* C4 witness: a candidate dated exactly at the cutoff was admitted, an entry
\* within the cap dated before the cutoff was not, and a second feed has been
\* read under the same cutoff.
TimeWindowWitness ==
  /\ pc = "summarize"
  /\ Len(fetched) >= 2
  /\ \E k \in 1..Len(uniq) :
       uniq[k].publishedAt.kind = "iso" /\ uniq[k].publishedAt.ms = cutoff
  /\ \E f \in 1..Len(fetched) :
       \E e \in 1..Min(maxItems, Len(EntriesRead(f))) :
         /\ publishedOf(EntriesRead(f)[e]).kind = "date"
         /\ publishedOf(EntriesRead(f)[e]).ms < cutoff
         /\ \A n \in 1..Len(items) : items[n].origin # <<f, e>>

\* C5: when uniq is empty the summarization service is never called and the
\* digest given to postToSlack is the fallback string; when uniq is not
\* empty the service is called and the fallback string is not used.
EmptySetFallback ==
  /\ openaiCalls > 0 => uniq # <<>>
  /\ (AfterSummarize /\ uniq = <<>>) =>
       /\ openaiCalls = 0
       /\ response = NoResponse
       /\ summary = Str(Fallback)
       /\ slackCalls # <<>> => slackCalls = <<Prefix \o Fallback>>
  /\ (AfterSummarize /\ uniq # <<>>) =>
       /\ openaiCalls = 1
       /\ summary.kind = "string" => summary.s # Fallback
       /\ \A n \in 1..Len(slackCalls) : slackCalls[n] # Prefix \o Fallback

\* C5 witness: every feed threw or gave no qualifying entry, at least one
\* gave entries, and the fallback message has been posted.
EmptySetFallbackWitness ==
  /\ pc = "exit"
  /\ uniq = <<>>
  /\ \E f \in 1..Len(fetched) : Threw(f)
  /\ \E f \in 1..Len(fetched) : Len(EntriesRead(f)) > 0
  /\ slackCalls = <<Prefix \o Fallback>>

\* C6: every candidate comes from one of the first maxItems entries of its
\* feed, each feed gives at most maxItems candidates, items has at most
\* maxItems x (number of feeds) entries, and uniq is never longer than items.
CapBound ==
  /\ \A n \in 1..Len(items) : items[n].origin[2] <= maxItems
  /\ \A f \in 1..Len(feeds) :
       Cardinality({n \in 1..Len(items) : items[n].origin[1] = f}) <= maxItems
  /\ Len(items) <= maxItems * Len(feeds)
  /\ Len(uniq) <= Len(items)

\* C6 witness: a feed returned more entries than the cap, the entries within
\* the cap were all rejected, an entry beyond the cap would have been
\* admitted, and the feed gave no candidate.
CapBoundWitness ==
  /\ pc = "dedup"
  /\ maxItems >= 1
  /\ \E f \in 1..Len(fetched) :
       LET es == EntriesRead(f)
       IN /\ Len(es) > maxItems
          /\ \A e \in 1..maxItems :
               entryStep(es[e], <<>>, cutoff, <<f, e>>).kind = "continue"
          /\ entryStep(es[maxItems + 1], <<>>, cutoff, <<f, maxItems + 1>>).kind = "push"
          /\ \A n \in 1..Len(items) : items[n].origin[1] # f

LexLess(a, b) == a[1] < b[1] \/ (a[1] = b[1] /\ a[2] < b[2])

\* C7: the candidates of uniq are in feed-list order and, within a feed, in
\* the order of the feed's entries; each is built from the entry at its
\* origin.
OrderPreserved ==
  /\ \A a, b \in 1..Len(uniq) : a < b => LexLess(uniq[a].origin, uniq[b].origin)
  /\ \A k \in 1..Len(uniq) :
       /\ uniq[k].origin[1] \in 1..Len(fetched)
       /\ ~Threw(uniq[k].origin[1])
       /\ uniq[k].origin[2] \in 1..Len(EntriesRead(uniq[k].origin[1]))
       /\ uniq[k].title = Trim(OrEmpty(EntryOf(uniq[k]).title))
       /\ uniq[k].url = Trim(OrEmpty(EntryOf(uniq[k]).link))

\* C7 witness: uniq holds two candidates of one feed and one of a later feed.
OrderPreservedWitness ==
  /\ pc = "summarize"
  /\ \E a, b, c \in 1..Len(uniq) :
       /\ uniq[a].origin[1] = uniq[b].origin[1]
       /\ uniq[a].origin[2] < uniq[b].origin[2]
       /\ uniq[b].origin[1] < uniq[c].origin[1]
  /\ Len(uniq) < Len(items)

NoDuplicateUrl(cs) == \A a, b \in 1..Len(cs) : a # b => cs[a].url # cs[b].url

\* C8: postToSlack is called at most once, only after every feed has been
\* read and the candidates deduplicated, with the label prefix followed by
\* the digest; a run that got a digest has called it exactly once when the
\* try block is left.
ExactlyOneDelivery ==
  /\ Len(slackCalls) <= 1
  /\ slackCalls # <<>> =>
       /\ pc \in {"finally", "exit"}
       /\ Len(fetched) = Len(feeds)
       /\ NoDuplicateUrl(uniq)
       /\ \A n \in 1..Len(items) : \E k \in 1..Len(uniq) : uniq[k].url = items[n].url
       /\ summary.kind = "string"
       /\ slackCalls[1] = Prefix \o summary.s
  /\ (pc \in {"finally", "exit"} /\ summary.kind = "string") => Len(slackCalls) = 1
  /\ pc \in {"boot", "crashed", "ingest", "dedup", "summarize", "post"} => slackCalls = <<>>

\* C8 witness: the service answered with a digest and the run ended having
\* posted it once.
ExactlyOneDeliveryWitness ==
  /\ pc = "exit"
  /\ openaiCalls = 1
  /\ summary.kind = "string"
  /\ summary.s # <<>>
  /\ Len(slackCalls) = 1
  /\ okLogged

\* The summarization call failed: no answer, an answer that is no JSON, or
\* an answer with an error status.
ServiceFailed ==
  \/ response.kind = "reject"
  \/ response.kind = "response" /\ (~response.ok \/ response.body.kind = "notjson")

\* C2: when uniq is not empty and the summarization call fails, the run
\* aborts and postToSlack is never called.
ServiceFailureIsFatal ==
  (uniq # <<>> /\ ServiceFailed) =>
    /\ slackCalls = <<>>
    /\ error = "callOpenAI threw"
    /\ summary = Absent

\* C9: a run that created the agent has closed it when the process ends,
\* however it ends.
AgentClosedAtExit ==
  (pc \in {"exit", "crashed"} /\ agent # "none") => agent = "closed"

\* A title or link that is undefined, empty or all white space.
Blank(x) == x.kind # "string" \/ \A i \in 1..Len(x.s) : IsSpace(x.s[i])

DateFields(entry) == <<entry.isoDate, entry.pubDate, entry.published, entry.updated>>

\* The positions, in priority order, of the date fields that parse.
Parseable(entry) == {i \in 1..4 : DateFields(entry)[i].kind = "datestring"}

FirstParseable(entry) ==
  DateFields(entry)[CHOOSE i \in Parseable(entry) : \A j \in Parseable(entry) : i <= j]

\* C10: an entry within the cap with a blank title or link is rejected
\* whatever its dates; otherwise only the first date field that parses, in
\* the order isoDate, pubDate, published, updated, decides: the entry is
\* rejected exactly when that instant is before the cutoff, and an entry
\* with no date that parses is admitted with publishedAt absent.
FilterDecisionRule ==
  \A f \in 1..Len(fetched) :
    \A e \in 1..Min(maxItems, Len(EntriesRead(f))) :
      LET entry == EntriesRead(f)[e]
          got == {n \in 1..Len(items) : items[n].origin = <<f, e>>}
      IN /\ Cardinality(got) <= 1
         /\ (Blank(entry.title) \/ Blank(entry.link)) => got = {}
         /\ (~Blank(entry.title) /\ ~Blank(entry.link) /\ Parseable(entry) = {}) =>
              /\ got # {}
              /\ \A n \in got : items[n].publishedAt = NullDate
         /\ (~Blank(entry.title) /\ ~Blank(entry.link) /\ Parseable(entry) # {}) =>
              /\ got = {} <=> FirstParseable(entry).ms < cutoff
              /\ \A n \in got :
                   items[n].publishedAt = [kind |-> "iso", ms |-> FirstParseable(entry).ms]

\* C10 witness: isoDate does not parse, pubDate is at the cutoff, published
\* is before it, and the entry was admitted with pubDate's instant.
FilterDecisionRuleWitness ==
  /\ pc = "dedup"
  /\ Len(fetched) = 1
  /\ Len(EntriesRead(1)) = 1
  /\ EntriesRead(1)[1].isoDate = BadDate
  /\ EntriesRead(1)[1].pubDate = DateStr(cutoff)
  /\ EntriesRead(1)[1].published = DateStr(cutoff - 1)
  /\ Len(items) = 1
  /\ items[1].publishedAt = [kind |-> "iso", ms |-> cutoff]

====
